---- MODULE Spec2Model ----
(***************************************************************************)
(* A model of @halix/action-sdk (src/src/index.ts): the module-level       *)
(* session fields written by initialize, the three data-access operations  *)
(* and their observable variants, the response formatters, and the pure    *)
(* helpers compareValues / getValueFromObject / sortObjectArray.           *)
(*                                                                         *)
(* JavaScript values are tagged records; JavaScript strings are TLA+       *)
(* strings (TLC evaluates Len, SubSeq and \o on them), so that splitting,  *)
(* replacing, lower-casing and serialising are computed character by       *)
(* character.                                                              *)
(***************************************************************************)
EXTENDS Integers, Sequences, FiniteSets, TLC

VARIABLES
    session,    \* the exported module variables (index.ts lines 26-74)
    calls,      \* the exported operations called so far, with their results
    requests,   \* the HTTP requests handed to axios, in order
    subs,       \* the subscriptions made to returned observables
    arg,        \* the input of a pure helper under study (pure specifications)
    ret         \* what that helper returned

vars == <<session, calls, requests, subs, arg, ret>>

(***************************************************************************)
(* Bounds of the model.                                                    *)
(***************************************************************************)
MaxCalls == 1       \* exported operations called after construction
MaxSubs == 2        \* subscriptions made to observables
MaxLen == 3         \* elements of an array handed to sortObjectArray

(***************************************************************************)
(* JavaScript values.                                                      *)
(***************************************************************************)
Undefined == [t |-> "undefined"]
Null == [t |-> "null"]
NaN == [t |-> "nan"]
Num(n) == [t |-> "number", n |-> n]
Str(s) == [t |-> "string", s |-> s]
Bool(b) == [t |-> "boolean", b |-> b]
Obj(f) == [t |-> "object", f |-> f]
Arr(e) == [t |-> "array", e |-> e]

NoFields == [k \in {} |-> Undefined]
None == [t |-> "none"]

\* ToBoolean: the test behind `if (v)`, `v || w`, `!v`.
Truthy(v) ==
    CASE v.t = "undefined" -> FALSE
      [] v.t = "null" -> FALSE
      [] v.t = "nan" -> FALSE
      [] v.t = "number" -> v.n # 0
      [] v.t = "string" -> v.s # ""
      [] v.t = "boolean" -> v.b
      [] OTHER -> TRUE

\* v[k] / v.k for a value that is not undefined or null: an own property of
\* an object, undefined for anything else.
Get(v, k) ==
    IF v.t = "object" /\ k \in DOMAIN v.f THEN v.f[k] ELSE Undefined

\* The i-th character of s, "" outside it.
Ch(s, i) == IF i >= 1 /\ i <= Len(s) THEN SubSeq(s, i, i) ELSE ""

Digits == "0123456789"
DigitText(d) == SubSeq(Digits, d + 1, d + 1)

RECURSIVE NatText(_)
NatText(n) ==
    IF n < 10 THEN DigitText(n) ELSE NatText(n \div 10) \o DigitText(n % 10)

NumText(n) == IF n < 0 THEN "-" \o NatText(0 - n) ELSE NatText(n)

\* `${v}` in a template literal.
ToStr(v) ==
    CASE v.t = "string" -> v.s
      [] v.t = "number" -> NumText(v.n)
      [] v.t = "undefined" -> "undefined"
      [] v.t = "null" -> "null"
      [] v.t = "nan" -> "NaN"
      [] v.t = "boolean" -> (IF v.b THEN "true" ELSE "false")
      [] OTHER -> "[object Object]"

RECURSIVE JoinFrom(_, _, _)
JoinFrom(e, i, sep) ==
    IF i > Len(e) THEN ""
    ELSE (IF i > 1 THEN sep ELSE "") \o ToStr(e[i]) \o JoinFrom(e, i + 1, sep)

\* Array.prototype.join
Join(a, sep) == JoinFrom(a.e, 1, sep)

(***************************************************************************)
(* Session state and initialize.                                           *)
(***************************************************************************)
CoreFields ==
    {"authToken", "sandboxKey", "serviceAddress", "actionSubject",
     "userContext", "params"}

SessionInit ==
    [authToken |-> Undefined, sandboxKey |-> Undefined,
     serviceAddress |-> Undefined, actionSubject |-> Undefined,
     userContext |-> Undefined, params |-> Undefined, useBody |-> Undefined]

\* The object the fields are read from: event.body when truthy, else event.
EventBody(event) ==
    IF Truthy(Get(event, "body")) THEN Get(event, "body") ELSE event

initializeReadsTopLevel(s, event) ==
    [authToken |-> Get(event, "authToken"),
     sandboxKey |-> Get(event, "sandboxKey"),
     serviceAddress |-> Get(event, "serviceAddress"),
     actionSubject |-> Get(event, "actionSubject"),
     userContext |-> Get(event, "userContext"),
     params |-> Get(event, "params"),
     useBody |-> IF Truthy(Get(event, "body")) THEN Bool(TRUE) ELSE s.useBody]

initializeResetsFlag(s, event) ==
    LET body == EventBody(event)
    IN  [authToken |-> Get(body, "authToken"),
         sandboxKey |-> Get(body, "sandboxKey"),
         serviceAddress |-> Get(body, "serviceAddress"),
         actionSubject |-> Get(body, "actionSubject"),
         userContext |-> Get(body, "userContext"),
         params |-> Get(body, "params"),
         useBody |-> Bool(Truthy(Get(event, "body")))]

\* initialize(event): the session after the call.
initialize(s, event) ==
    LET body == EventBody(event)
        flag == IF Truthy(Get(event, "body")) THEN Bool(TRUE) ELSE s.useBody
    IN  IF Truthy(body)
        THEN [authToken |-> Get(body, "authToken"),
              sandboxKey |-> Get(body, "sandboxKey"),
              serviceAddress |-> Get(body, "serviceAddress"),
              actionSubject |-> Get(body, "actionSubject"),
              userContext |-> Get(body, "userContext"),
              params |-> Get(body, "params"),
              useBody |-> flag]
        ELSE [s EXCEPT !.useBody = flag]

\* Incoming events: fields at the top level or nested under body, complete
\* or with fields missing.
PayloadA ==
    [authToken |-> Str("t1"), sandboxKey |-> Str("s1"),
     serviceAddress |-> Str("http://h1"),
     actionSubject |-> Obj([objKey |-> Str("k1")]),
     userContext |-> Obj([user |-> Str("u1")]),
     params |-> Obj(NoFields)]

PayloadB ==
    [sandboxKey |-> Str("s2"), serviceAddress |-> Str("http://h2"),
     actionSubject |-> Str("subject2")]

Events ==
    { Obj(PayloadA),
      Obj([body |-> Obj(PayloadB), authToken |-> Str("stray")]),
      Obj(NoFields) }

Initialize(event) ==
    /\ session' = initialize(session, event)
    /\ UNCHANGED <<calls, requests, subs, arg, ret>>

(***************************************************************************)
(* Data access: getRelatedObjects, getObject, saveRelatedObject.           *)
(***************************************************************************)
DataOps == {"getRelatedObjects", "getObject", "saveRelatedObject"}

NoReply == [ok |-> FALSE, v |-> None]

getRelatedObjectsParamsNeedsBoth(filter, fetchedRelationships) ==
    IF Truthy(filter) /\ Truthy(fetchedRelationships)
    THEN Obj([filter |-> Str(ToStr(filter)),
              fetchedRelationships |-> Str(Join(fetchedRelationships, ","))])
    ELSE Undefined

\* new URLSearchParams(p) for the p built at lines 102-112.
getRelatedObjectsParams(filter, fetchedRelationships) ==
    IF Truthy(filter) \/ Truthy(fetchedRelationships)
    THEN Obj([k \in (IF Truthy(filter) THEN {"filter"} ELSE {})
                    \cup (IF Truthy(fetchedRelationships)
                          THEN {"fetchedRelationships"} ELSE {})
              |-> IF k = "filter" THEN Str(ToStr(filter))
                  ELSE Str(Join(fetchedRelationships, ","))])
    ELSE Undefined

getObjectParams(fetchedRelationships) ==
    IF Truthy(fetchedRelationships)
    THEN Obj([fetchedRelationships |-> Str(Join(fetchedRelationships, ","))])
    ELSE Undefined

BearerHeaderAtLoad(s) == "Bearer " \o ToStr(SessionInit.authToken)

\* `Bearer ${authToken}`, evaluated when the operation is called.
BearerHeader(s) == "Bearer " \o ToStr(s.authToken)

RelatedUrl(s, parentElementId, parentKey, elementId) ==
    ToStr(s.serviceAddress) \o "/schema/sandboxes/" \o ToStr(s.sandboxKey)
        \o "/" \o ToStr(parentElementId) \o "/" \o ToStr(parentKey)
        \o "/" \o ToStr(elementId)

ObjectUrl(s, dataElementId, key) ==
    ToStr(s.serviceAddress) \o "/schema/sandboxes/" \o ToStr(s.sandboxKey)
        \o "/" \o ToStr(dataElementId) \o "/" \o ToStr(key)

\* The request getRelatedObjects hands to axios.get.
getRelatedObjectsRequest(s, a) ==
    [method |-> "GET",
     url |-> RelatedUrl(s, a.parentElementId, a.parentKey, a.elementId),
     authorization |-> BearerHeader(s),
     params |-> getRelatedObjectsParams(a.filter, a.fetchedRelationships),
     data |-> Undefined]

\* The request getObject hands to axios.get.
getObjectRequest(s, a) ==
    [method |-> "GET",
     url |-> ObjectUrl(s, a.dataElementId, a.key),
     authorization |-> BearerHeader(s),
     params |-> getObjectParams(a.fetchedRelationships),
     data |-> Undefined]

\* The url saveRelatedObject builds (lines 218-221).
SaveUrl(s, parentElementId, parentKey, elementId, opts) ==
    ToStr(s.serviceAddress) \o "/schema/sandboxes/" \o ToStr(s.sandboxKey)
        \o "/" \o ToStr(parentElementId) \o "/" \o ToStr(parentKey)
        \o "/" \o ToStr(elementId)
        \o (IF Truthy(Get(opts, "bypassValidation"))
            THEN "?bypassValidation=true" ELSE "")

saveRelatedObjectRequestBypassesOnOpts(s, a) ==
    [method |-> "POST",
     url |-> SaveUrl(s, a.parentElementId, a.parentKey, a.elementId,
                     IF Truthy(a.opts) THEN Obj([bypassValidation |-> Bool(TRUE)])
                     ELSE a.opts),
     authorization |-> BearerHeader(s),
     params |-> Undefined,
     data |-> a.objectToSave]

\* The request saveRelatedObject hands to axios.post.
saveRelatedObjectRequest(s, a) ==
    [method |-> "POST",
     url |-> SaveUrl(s, a.parentElementId, a.parentKey, a.elementId, a.opts),
     authorization |-> BearerHeader(s),
     params |-> Undefined,
     data |-> a.objectToSave]

BuildRequest(op, s, a) ==
    CASE op = "getRelatedObjects" -> getRelatedObjectsRequest(s, a)
      [] op = "getObject" -> getObjectRequest(s, a)
      [] op = "saveRelatedObject" -> saveRelatedObjectRequest(s, a)

\* Arguments the data-access operations are called with.
Relationships == Arr(<<Str("owner"), Str("items")>>)

GetRelatedObjectsArgs ==
    { [parentElementId |-> Str("customer"), parentKey |-> Str("c1"),
       elementId |-> Str("purchase"), filter |-> Str("a=1"),
       fetchedRelationships |-> Relationships] }

GetObjectArgs ==
    { [dataElementId |-> Str("purchase"), key |-> Str("p1"),
       fetchedRelationships |-> Undefined] }

SaveRelatedObjectArgs ==
    { [parentElementId |-> Str("customer"), parentKey |-> Str("c1"),
       elementId |-> Str("purchase"),
       objectToSave |-> Obj([status |-> Str("new")]),
       opts |-> Obj([bypassValidation |-> Bool(TRUE)])] }

\* What the session is after a data-access operation ran up to its await:
\* `let params` (lines 101, 164) is a local that shadows the exported params.
DataAccessAssignsParams(op, s, a) ==
    [s EXCEPT !.params = BuildRequest(op, s, a).params]

SessionAfterDataAccess(op, s, a) == s

\* The requests after the synchronous part of a data-access operation: one
\* axios.get / axios.post.
RequestsAfterCall(reqs, callId, r) ==
    Append(reqs, [call |-> callId, req |-> r, reply |-> NoReply])

\* The synchronous part of op(...args): build the request from the session
\* as it is now, hand it to axios, return a pending promise.  The
\* AsObservable variants do the same and wrap the promise with from().
DataAccess(op, observable, a) ==
    /\ Len(calls) < MaxCalls
    /\ LET callId == Len(calls) + 1
       IN  /\ requests' = RequestsAfterCall(requests, callId,
                                            BuildRequest(op, session, a))
           /\ calls' = Append(calls,
                              [op |-> op, observable |-> observable, in |-> a,
                               state |-> "pending", result |-> Undefined])
    /\ session' = SessionAfterDataAccess(op, session, a)
    /\ UNCHANGED <<subs, arg, ret>>

GetRelatedObjects ==
    \E a \in GetRelatedObjectsArgs : DataAccess("getRelatedObjects", FALSE, a)

GetRelatedObjectsAsObservable ==
    \E a \in GetRelatedObjectsArgs : DataAccess("getRelatedObjects", TRUE, a)

GetObject ==
    \E a \in GetObjectArgs : DataAccess("getObject", FALSE, a)

GetObjectAsObservable ==
    \E a \in GetObjectArgs : DataAccess("getObject", TRUE, a)

SaveRelatedObject ==
    \E a \in SaveRelatedObjectArgs : DataAccess("saveRelatedObject", FALSE, a)

SaveRelatedObjectAsObservable ==
    \E a \in SaveRelatedObjectArgs : DataAccess("saveRelatedObject", TRUE, a)

\* What the remote service may answer: a response whose body is data, or a
\* failure (network error, non-2xx status) that axios raises.
Replies ==
    { [ok |-> TRUE,
       v |-> Obj([data |-> Arr(<<Obj([objKey |-> Str("p1")])>>),
                  status |-> Num(200)])],
      [ok |-> FALSE,
       v |-> Obj([message |-> Str("Request failed with status code 500")])] }

AwaitReturnsResponse(c, reply) ==
    IF reply.ok
    THEN [c EXCEPT !.state = "resolved", !.result = reply.v]
    ELSE [c EXCEPT !.state = "rejected", !.result = reply.v]

\* The rest of the operation after `await`: return response.data, or let the
\* error axios raised propagate.
AfterAwait(c, reply) ==
    IF reply.ok
    THEN [c EXCEPT !.state = "resolved", !.result = Get(reply.v, "data")]
    ELSE [c EXCEPT !.state = "rejected", !.result = reply.v]

IsDataCall(c) == c.op \in DataOps

RequestsOf(i) == { j \in DOMAIN requests : requests[j].call = i }

\* The HTTP call of data-access call i settles and the operation resumes.
HttpSettle(i, reply) ==
    /\ i \in DOMAIN calls
    /\ IsDataCall(calls[i])
    /\ calls[i].state = "pending"
    /\ \E j \in RequestsOf(i) :
          /\ requests[j].reply = NoReply
          /\ requests' = [requests EXCEPT ![j].reply = reply]
    /\ calls' = [calls EXCEPT ![i] = AfterAwait(@, reply)]
    /\ UNCHANGED <<session, subs, arg, ret>>

(***************************************************************************)
(* Observables: from(promise) (rxjs).                                      *)
(***************************************************************************)
SubscribeReissues(reqs, i) ==
    Append(reqs, [call |-> i, req |-> reqs[CHOOSE j \in DOMAIN reqs : reqs[j].call = i].req,
                  reply |-> NoReply])

\* The requests after subscribing to the observable of call i: from(promise)
\* only attaches callbacks to the promise the call already created.
RequestsAfterSubscribe(reqs, i) == reqs

IsObservable(i) ==
    i \in DOMAIN calls /\ IsDataCall(calls[i]) /\ calls[i].observable

Subscribe(i) ==
    /\ IsObservable(i)
    /\ Len(subs) < MaxSubs
    /\ subs' = Append(subs, [obs |-> i, events |-> <<>>])
    /\ requests' = RequestsAfterSubscribe(requests, i)
    /\ UNCHANGED <<session, calls, arg, ret>>

EmitsValueOnly(c) ==
    IF c.state = "resolved"
    THEN << [kind |-> "next", v |-> c.result] >>
    ELSE << [kind |-> "error", v |-> c.result] >>

\* What from(promise) sends a subscriber once the promise has settled.
FromPromiseEmits(c) ==
    IF c.state = "resolved"
    THEN << [kind |-> "next", v |-> c.result],
            [kind |-> "complete", v |-> Undefined] >>
    ELSE << [kind |-> "error", v |-> c.result] >>

\* The promise callback of subscription k runs.
Deliver(k) ==
    /\ k \in DOMAIN subs
    /\ subs[k].events = <<>>
    /\ calls[subs[k].obs].state # "pending"
    /\ subs' = [subs EXCEPT ![k].events = FromPromiseEmits(calls[subs[k].obs])]
    /\ UNCHANGED <<session, calls, requests, arg, ret>>

(***************************************************************************)
(* JSON.stringify, as far as the response values need it.                  *)
(***************************************************************************)
\* QuoteJSONString: the quotation mark and the reverse solidus are escaped.
RECURSIVE QuoteFrom(_, _)
QuoteFrom(s, i) ==
    IF i > Len(s) THEN "\""
    ELSE (IF Ch(s, i) = "\"" THEN "\\\""
          ELSE IF Ch(s, i) = "\\" THEN "\\\\"
          ELSE Ch(s, i)) \o QuoteFrom(s, i + 1)

Quote(s) == "\"" \o QuoteFrom(s, 1)

\* undefined has no JSON text: it is left out of an object, null in an array.
Serializable(v) == v.t # "undefined"

\* The keys of an object in the order they are written out.  The model keeps
\* no insertion order; any fixed order gives the same parsed value.
RECURSIVE KeySeq(_)
KeySeq(S) ==
    IF S = {} THEN <<>>
    ELSE LET k == CHOOSE x \in S : TRUE IN <<k>> \o KeySeq(S \ {k})

RECURSIVE JSONText(_)
RECURSIVE MembersText(_, _, _, _)
RECURSIVE ElementsText(_, _)

JSONText(v) ==
    CASE v.t = "null" -> "null"
      [] v.t = "nan" -> "null"
      [] v.t = "number" -> NumText(v.n)
      [] v.t = "string" -> Quote(v.s)
      [] v.t = "boolean" -> (IF v.b THEN "true" ELSE "false")
      [] v.t = "array" -> "[" \o ElementsText(v.e, 1) \o "]"
      [] v.t = "object" -> "{" \o MembersText(v.f, KeySeq(DOMAIN v.f), 1, TRUE) \o "}"

MembersText(f, keys, i, first) ==
    IF i > Len(keys) THEN ""
    ELSE IF ~Serializable(f[keys[i]]) THEN MembersText(f, keys, i + 1, first)
    ELSE (IF first THEN "" ELSE ",") \o Quote(keys[i]) \o ":"
             \o JSONText(f[keys[i]]) \o MembersText(f, keys, i + 1, FALSE)

ElementsText(e, i) ==
    IF i > Len(e) THEN ""
    ELSE (IF i > 1 THEN "," ELSE "")
             \o (IF Serializable(e[i]) THEN JSONText(e[i]) ELSE "null")
             \o ElementsText(e, i + 1)

JSONStringify(v) == IF Serializable(v) THEN Str(JSONText(v)) ELSE Undefined

(***************************************************************************)
(* JSON.parse of the texts JSON.stringify writes (no white space).         *)
(***************************************************************************)
Thrown == [t |-> "thrown"]
ParseFail == [ok |-> FALSE, v |-> Thrown, i |-> 0]
ParseOk(v, i) == [ok |-> TRUE, v |-> v, i |-> i]

IsDigit(c) == c # "" /\ \E d \in 0..9 : DigitText(d) = c
DigitValue(c) == CHOOSE d \in 0..9 : DigitText(d) = c

RECURSIVE ScanDigits(_, _, _)
ScanDigits(s, i, acc) ==
    IF IsDigit(Ch(s, i)) THEN ScanDigits(s, i + 1, acc * 10 + DigitValue(Ch(s, i)))
    ELSE ParseOk(Num(acc), i)

ParseNumber(s, i) ==
    IF Ch(s, i) = "-"
    THEN IF IsDigit(Ch(s, i + 1))
         THEN LET r == ScanDigits(s, i + 1, 0) IN ParseOk(Num(0 - r.v.n), r.i)
         ELSE ParseFail
    ELSE ScanDigits(s, i, 0)

\* s[i] is just after the opening quotation mark.
RECURSIVE ScanString(_, _, _)
ScanString(s, i, acc) ==
    IF i > Len(s) THEN ParseFail
    ELSE IF Ch(s, i) = "\"" THEN ParseOk(Str(acc), i + 1)
    ELSE IF Ch(s, i) = "\\"
         THEN IF Ch(s, i + 1) \in {"\"", "\\"}
              THEN ScanString(s, i + 2, acc \o Ch(s, i + 1))
              ELSE ParseFail
    ELSE ScanString(s, i + 1, acc \o Ch(s, i))

Literal(s, i, word, v) ==
    IF i + Len(word) - 1 <= Len(s) /\ SubSeq(s, i, i + Len(word) - 1) = word
    THEN ParseOk(v, i + Len(word))
    ELSE ParseFail

RECURSIVE ParseValue(_, _)
RECURSIVE ParseElements(_, _, _)
RECURSIVE ParseMembers(_, _, _)

ParseValue(s, i) ==
    LET c == Ch(s, i)
    IN  CASE c = "{" -> (IF Ch(s, i + 1) = "}" THEN ParseOk(Obj(NoFields), i + 2)
                         ELSE ParseMembers(s, i + 1, NoFields))
          [] c = "[" -> (IF Ch(s, i + 1) = "]" THEN ParseOk(Arr(<<>>), i + 2)
                         ELSE ParseElements(s, i + 1, <<>>))
          [] c = "\"" -> ScanString(s, i + 1, "")
          [] c = "n" -> Literal(s, i, "null", Null)
          [] c = "t" -> Literal(s, i, "true", Bool(TRUE))
          [] c = "f" -> Literal(s, i, "false", Bool(FALSE))
          [] c = "-" \/ IsDigit(c) -> ParseNumber(s, i)
          [] OTHER -> ParseFail

ParseElements(s, i, acc) ==
    LET r == ParseValue(s, i)
    IN  IF ~r.ok THEN ParseFail
        ELSE IF Ch(s, r.i) = "," THEN ParseElements(s, r.i + 1, Append(acc, r.v))
        ELSE IF Ch(s, r.i) = "]" THEN ParseOk(Arr(Append(acc, r.v)), r.i + 1)
        ELSE ParseFail

ParseMembers(s, i, acc) ==
    IF Ch(s, i) # "\"" THEN ParseFail
    ELSE LET k == ScanString(s, i + 1, "")
         IN  IF ~k.ok \/ Ch(s, k.i) # ":" THEN ParseFail
             ELSE LET r == ParseValue(s, k.i + 1)
                      f == (k.v.s :> r.v) @@ acc
                  IN  IF ~r.ok THEN ParseFail
                      ELSE IF Ch(s, r.i) = "," THEN ParseMembers(s, r.i + 1, f)
                      ELSE IF Ch(s, r.i) = "}" THEN ParseOk(Obj(f), r.i + 1)
                      ELSE ParseFail

\* JSON.parse(text): the value, or Thrown for a SyntaxError (JSON.parse of
\* undefined reads the text "undefined").
JSONParse(text) ==
    IF text.t # "string" THEN Thrown
    ELSE LET r == ParseValue(text.s, 1)
         IN  IF r.ok /\ r.i = Len(text.s) + 1 THEN r.v ELSE Thrown

(***************************************************************************)
(* Response formatters.                                                    *)
(***************************************************************************)
prepareSuccessResponseAlwaysWraps(s, successResponse) ==
    Obj([statusCode |-> Num(200), body |-> JSONStringify(successResponse)])

prepareSuccessResponseToString(s, successResponse) ==
    IF Truthy(s.useBody)
    THEN Obj([statusCode |-> Num(200), body |-> Str(ToStr(successResponse))])
    ELSE successResponse

prepareSuccessResponse(s, successResponse) ==
    IF Truthy(s.useBody)
    THEN Obj([statusCode |-> Num(200), body |-> JSONStringify(successResponse)])
    ELSE successResponse

prepareErrorResponseAlwaysWraps(s, errorMessage) ==
    Obj([statusCode |-> Num(400),
         body |-> JSONStringify(Obj([errorMessage |-> errorMessage]))])

prepareErrorResponse(s, errorMessage) ==
    IF Truthy(s.useBody)
    THEN Obj([statusCode |-> Num(400),
              body |-> JSONStringify(Obj([errorMessage |-> errorMessage]))])
    ELSE Obj([errorMessage |-> errorMessage, responseType |-> Str("error")])

\* Values a handler puts in the fields typed `any` of an ActionResponse.
AnyValues ==
    { Num(5), Num(0), Num(-3), Num(120), Str("a"), Str(""), Str("say \"hi\""),
      Str("c:\\x"), Null, Bool(TRUE), Bool(FALSE), NaN, Undefined,
      Arr(<<>>), Arr(<<Num(1), Undefined>>), Arr(<<Str("x"), Num(12)>>),
      Obj(NoFields), Obj([name |-> Str("X"), note |-> Undefined]),
      Obj([name |-> Str("X"), tags |-> Arr(<<Null, Bool(TRUE)>>)]),
      Obj([owner |-> Obj([key |-> Str("k1"), rank |-> NaN])]) }

ResponseValues ==
    { Obj([responseType |-> Str("calculatedFieldAction"),
           isError |-> Bool(FALSE), calculatedValue |-> v]) : v \in AnyValues }
    \cup
    { Obj([responseType |-> Str("formTemplateAction"), isError |-> Bool(FALSE),
           updatedSubject |-> Obj([objKey |-> Str("p1"), total |-> Num(42)]),
           successMessage |-> Str("Saved")]) }

ErrorMessages == { "boom", "", "Failed to \"save\"" }

SampleResponses ==
    { Obj([responseType |-> Str("calculatedFieldAction"),
           isError |-> Bool(FALSE), calculatedValue |-> Num(5)]) }

SampleMessages == { "boom" }

PrepareSuccessResponse(x) ==
    /\ Len(calls) < MaxCalls
    /\ calls' = Append(calls,
                       [op |-> "prepareSuccessResponse", observable |-> FALSE,
                        in |-> x, useBody |-> session.useBody,
                        state |-> "returned",
                        result |-> prepareSuccessResponse(session, x)])
    /\ UNCHANGED <<session, requests, subs, arg, ret>>

PrepareErrorResponse(m) ==
    /\ Len(calls) < MaxCalls
    /\ calls' = Append(calls,
                       [op |-> "prepareErrorResponse", observable |-> FALSE,
                        in |-> Str(m), useBody |-> session.useBody,
                        state |-> "returned",
                        result |-> prepareErrorResponse(session, Str(m))])
    /\ UNCHANGED <<session, requests, subs, arg, ret>>

(***************************************************************************)
(* Strings: code units, toLowerCase, localeCompare, split, replace.        *)
(***************************************************************************)
\* The characters the model's strings are written with, in UTF-16 order.
CodeUnits == " \"-./0123456789:=?ABCDEFGHIJKLMNOPQRSTUVWXYZ[\\]_abcdefghijklmnopqrstuvwxyz{}"
UpperCase == "ABCDEFGHIJKLMNOPQRSTUVWXYZ"
LowerCase == "abcdefghijklmnopqrstuvwxyz"

IndexIn(alphabet, c) ==
    IF \E i \in 1..Len(alphabet) : SubSeq(alphabet, i, i) = c
    THEN CHOOSE i \in 1..Len(alphabet) : SubSeq(alphabet, i, i) = c
    ELSE 0

CodeUnit(c) == IndexIn(CodeUnits, c)

LowerChar(c) ==
    IF IndexIn(UpperCase, c) > 0
    THEN SubSeq(LowerCase, IndexIn(UpperCase, c), IndexIn(UpperCase, c))
    ELSE c

RECURSIVE LowerFrom(_, _)
LowerFrom(s, i) ==
    IF i > Len(s) THEN "" ELSE LowerChar(Ch(s, i)) \o LowerFrom(s, i + 1)

\* String.prototype.toLowerCase
toLowerCase(s) == LowerFrom(s, 1)

\* -1, 0 or 1: s against t by code units, a proper prefix first.
RECURSIVE CompareFrom(_, _, _)
CompareFrom(s, t, i) ==
    IF i > Len(s) /\ i > Len(t) THEN 0
    ELSE IF i > Len(s) THEN -1
    ELSE IF i > Len(t) THEN 1
    ELSE IF CodeUnit(Ch(s, i)) < CodeUnit(Ch(t, i)) THEN -1
    ELSE IF CodeUnit(Ch(s, i)) > CodeUnit(Ch(t, i)) THEN 1
    ELSE CompareFrom(s, t, i + 1)

CodeUnitCompare(s, t) == CompareFrom(s, t, 1)

\* String.prototype.localeCompare for strings of lower-case letters and
\* digits, where the collation order is the code-unit order.
localeCompare(s, t) == CodeUnitCompare(s, t)

\* String.prototype.split with a one-character separator.
RECURSIVE SplitFrom(_, _, _, _)
SplitFrom(s, sep, i, cur) ==
    IF i > Len(s) THEN <<cur>>
    ELSE IF Ch(s, i) = sep THEN <<cur>> \o SplitFrom(s, sep, i + 1, "")
    ELSE SplitFrom(s, sep, i + 1, cur \o Ch(s, i))

Split(s, sep) == SplitFrom(s, sep, 1, "")

StartsAt(s, pat, i) ==
    i + Len(pat) - 1 <= Len(s) /\ SubSeq(s, i, i + Len(pat) - 1) = pat

\* String.prototype.replace with a string pattern: the first occurrence.
ReplaceFirst(s, pat, rep) ==
    IF \E i \in 1..Len(s) : StartsAt(s, pat, i)
    THEN LET i == CHOOSE k \in 1..Len(s) :
                     StartsAt(s, pat, k) /\ \A m \in 1..(k - 1) : ~StartsAt(s, pat, m)
         IN  SubSeq(s, 1, i - 1) \o rep \o SubSeq(s, i + Len(pat), Len(s))
    ELSE s

(***************************************************************************)
(* compareValues.                                                          *)
(***************************************************************************)
IsNumeric(s) == Len(s) > 0 /\ \A i \in 1..Len(s) : IsDigit(Ch(s, i))

\* ToNumber for the primitives of the model; NaN where there is no number.
ToNumber(v) ==
    CASE v.t = "number" -> v
      [] v.t = "null" -> Num(0)
      [] v.t = "boolean" -> Num(IF v.b THEN 1 ELSE 0)
      [] v.t = "string" ->
            (IF v.s = "" THEN Num(0)
             ELSE IF IsNumeric(v.s) THEN ScanDigits(v.s, 1, 0).v
             ELSE NaN)
      [] OTHER -> NaN

\* a < b: two strings by code units, anything else as numbers, false when
\* either side is NaN.
LessThan(a, b) ==
    IF a.t = "string" /\ b.t = "string"
    THEN CodeUnitCompare(a.s, b.s) < 0
    ELSE LET x == ToNumber(a)
             y == ToNumber(b)
         IN  x.t = "number" /\ y.t = "number" /\ x.n < y.n

compareValuesDescendingPresence(valueA, valueB, descending, caseInsensitive) ==
    IF caseInsensitive /\ valueA.t = "string"
    THEN IF Truthy(valueA) /\ Truthy(valueB)
         THEN IF valueB.t # "string" THEN Thrown
              ELSE LET comp == localeCompare(toLowerCase(valueA.s),
                                             toLowerCase(valueB.s))
                   IN  Num(IF descending THEN comp * (-1) ELSE comp)
         ELSE IF Truthy(valueA) /\ ~Truthy(valueB)
              THEN Num(IF descending THEN 1 ELSE -1)
         ELSE IF ~Truthy(valueA) /\ Truthy(valueB)
              THEN Num(IF descending THEN -1 ELSE 1)
         ELSE Num(0)
    ELSE IF LessThan(valueA, valueB) THEN Num(IF descending THEN 1 ELSE -1)
         ELSE IF LessThan(valueB, valueA) THEN Num(IF descending THEN -1 ELSE 1)
         ELSE Num(0)

compareValuesKeepsCase(valueA, valueB, descending, caseInsensitive) ==
    IF caseInsensitive /\ valueA.t = "string"
    THEN IF Truthy(valueA) /\ Truthy(valueB)
         THEN IF valueB.t # "string" THEN Thrown
              ELSE LET comp == localeCompare(valueA.s, valueB.s)
                   IN  Num(IF descending THEN comp * (-1) ELSE comp)
         ELSE IF Truthy(valueA) /\ ~Truthy(valueB) THEN Num(-1)
         ELSE IF ~Truthy(valueA) /\ Truthy(valueB) THEN Num(1)
         ELSE Num(0)
    ELSE IF LessThan(valueA, valueB) THEN Num(IF descending THEN 1 ELSE -1)
         ELSE IF LessThan(valueB, valueA) THEN Num(IF descending THEN -1 ELSE 1)
         ELSE Num(0)

\* compareValues: a number, or Thrown when valueB.toLowerCase is not a
\* function (a truthy valueB that is not a string).
compareValues(valueA, valueB, descending, caseInsensitive) ==
    IF caseInsensitive /\ valueA.t = "string"
    THEN IF Truthy(valueA) /\ Truthy(valueB)
         THEN IF valueB.t # "string" THEN Thrown
              ELSE LET comp == localeCompare(toLowerCase(valueA.s),
                                             toLowerCase(valueB.s))
                   IN  Num(IF descending THEN comp * (-1) ELSE comp)
         ELSE IF Truthy(valueA) /\ ~Truthy(valueB) THEN Num(-1)
         ELSE IF ~Truthy(valueA) /\ Truthy(valueB) THEN Num(1)
         ELSE Num(0)
    ELSE IF LessThan(valueA, valueB) THEN Num(IF descending THEN 1 ELSE -1)
         ELSE IF LessThan(valueB, valueA) THEN Num(IF descending THEN -1 ELSE 1)
         ELSE Num(0)

(***************************************************************************)
(* getValueFromObject.                                                     *)
(***************************************************************************)
\* value[name]: a TypeError when value is undefined or null, the property
\* otherwise (undefined where the value has no such property).
GetProperty(v, name) ==
    CASE v.t \in {"undefined", "null"} -> Thrown
      [] v.t = "object" -> Get(v, name)
      [] v.t = "string" /\ name = "length" -> Num(Len(v.s))
      [] v.t = "array" /\ name = "length" -> Num(Len(v.e))
      [] v.t = "array" /\ IsNumeric(name) ->
            (LET i == ScanDigits(name, 1, 0).v.n
             IN  IF i < Len(v.e) /\ NatText(i) = name THEN v.e[i + 1] ELSE Undefined)
      [] OTHER -> Undefined

HasSuffix(s, suf) ==
    Len(s) >= Len(suf) /\ SubSeq(s, Len(s) - Len(suf) + 1, Len(s)) = suf

\* The field one path component reads (lines 346-352).
ComponentField(component) ==
    LET compSplit == Split(component, ":")
    IN  IF Len(compSplit) > 1
        THEN ReplaceFirst(compSplit[2], "Key", "")
        ELSE component

RECURSIVE WalkComponentsUnguarded(_, _, _)
WalkComponentsUnguarded(value, components, i) ==
    IF i > Len(components) \/ value = Thrown THEN value
    ELSE WalkComponentsUnguarded(
             GetProperty(value, ComponentField(components[i])), components, i + 1)

\* The loop of lines 339-354: a component is read only from a truthy value.
RECURSIVE WalkComponents(_, _, _)
WalkComponents(value, components, i) ==
    IF i > Len(components) THEN value
    ELSE IF Truthy(value)
         THEN WalkComponents(GetProperty(value, ComponentField(components[i])),
                             components, i + 1)
         ELSE WalkComponents(value, components, i + 1)

getValueFromObject(object, attribute) ==
    WalkComponents(object, Split(attribute, "."), 1)

(***************************************************************************)
(* sortObjectArray.                                                        *)
(***************************************************************************)
\* The comparator handed to Array.prototype.sort (lines 263-277).
RECURSIVE SortComparator(_, _, _, _)
SortComparator(a, b, sort, i) ==
    IF i > Len(sort) THEN Num(0)
    ELSE LET comparison ==
                 compareValues(getValueFromObject(a, sort[i].attributeId),
                               getValueFromObject(b, sort[i].attributeId),
                               sort[i].descending, sort[i].caseInsensitive)
         IN  IF comparison = Thrown THEN Thrown
             ELSE IF comparison.n # 0 THEN comparison
             ELSE SortComparator(a, b, sort, i + 1)

ComparatorThrows(e, sort) ==
    \E i, j \in 1..Len(e) : SortComparator(e[i], e[j], sort, 1) = Thrown

\* Insert x into the sorted sequence e after the last element it does not
\* precede.
RECURSIVE InsertSorted(_, _, _, _)
InsertSorted(e, x, sort, i) ==
    IF i = 0 THEN <<x>> \o e
    ELSE IF SortComparator(x, e[i], sort, 1).n < 0
         THEN InsertSorted(e, x, sort, i - 1)
         ELSE SubSeq(e, 1, i) \o <<x>> \o SubSeq(e, i + 1, Len(e))

RECURSIVE SortPrefix(_, _, _)
SortPrefix(e, sort, n) ==
    IF n = 0 THEN <<>>
    ELSE LET sorted == SortPrefix(e, sort, n - 1)
         IN  InsertSorted(sorted, e[n], sort, Len(sorted))

\* The comparator is a consistent comparator for the elements of e in the
\* sense of Array.prototype.sort: it does not throw, comparing b with a gives
\* the opposite sign of comparing a with b, and "not after" is transitive.
ConsistentComparator(e, sort) ==
    /\ ~ComparatorThrows(e, sort)
    /\ \A i, j \in 1..Len(e) :
          LET ab == SortComparator(e[i], e[j], sort, 1).n
              ba == SortComparator(e[j], e[i], sort, 1).n
          IN  (ab < 0 <=> ba > 0) /\ (ab = 0 <=> ba = 0)
    /\ \A i, j, k \in 1..Len(e) :
          (/\ SortComparator(e[i], e[j], sort, 1).n <= 0
           /\ SortComparator(e[j], e[k], sort, 1).n <= 0)
              => SortComparator(e[i], e[k], sort, 1).n <= 0

\* The rearrangements of the sequence e.
Rearrangements(e) ==
    { [k \in 1..Len(e) |-> e[p[k]]] :
        p \in { q \in [1..Len(e) -> 1..Len(e)] :
                  \A m, n \in 1..Len(e) : q[m] = q[n] => m = n } }

\* The value a call returns when it returns the array it was given.
SameArray == [t |-> "reference", to |-> "array"]

SortOutcome(e, returned) == [array |-> Arr(e), returned |-> returned]

sortObjectArraySortsCopy(array, sort) ==
    { SortOutcome(array.e, Arr(SortPrefix(array.e, sort, Len(array.e)))) }

\* return array.sort(comparator): what the call can leave in the array it
\* was given, and what it returns.  Array.prototype.sort sorts in place and
\* returns its receiver; with fewer than two elements the comparator is not
\* called; with a consistent comparator the order is the stable sorted one;
\* otherwise the order is implementation-defined (some rearrangement), and
\* where some comparison throws the call may throw.
sortObjectArray(array, sort) ==
    LET e == array.e
    IN  IF Len(e) < 2 THEN { SortOutcome(e, SameArray) }
        ELSE IF ConsistentComparator(e, sort)
        THEN { SortOutcome(SortPrefix(e, sort, Len(e)), SameArray) }
        ELSE { SortOutcome(p, SameArray) : p \in Rearrangements(e) }
             \cup (IF ComparatorThrows(e, sort)
                   THEN { SortOutcome(p, Thrown) : p \in Rearrangements(e) }
                   ELSE {})

(***************************************************************************)
(* The pure helpers as operations of the module.                           *)
(***************************************************************************)
HelperCall(op, in, out) ==
    /\ Len(calls) < MaxCalls
    /\ calls' = Append(calls, [op |-> op, observable |-> FALSE, in |-> in,
                               state |-> "returned", result |-> out])
    /\ UNCHANGED <<session, requests, subs, arg, ret>>

SampleRecords ==
    Arr(<< Obj([name |-> Str("Bob"), owner |-> Obj([rank |-> Num(2)])]),
           Obj([name |-> Str("alice"), owner |-> Obj([rank |-> Num(1)])]) >>)

SampleSort ==
    << [attributeId |-> "name", descending |-> FALSE, caseInsensitive |-> TRUE] >>

CompareValuesCall ==
    \E d \in BOOLEAN :
        HelperCall("compareValues", <<Str(""), Str("x"), d, TRUE>>,
                   compareValues(Str(""), Str("x"), d, TRUE))

GetValueFromObjectCall ==
    HelperCall("getValueFromObject", <<SampleRecords.e[1], "owner.rank">>,
               getValueFromObject(SampleRecords.e[1], "owner.rank"))

SortObjectArrayCall ==
    \E out \in sortObjectArray(SampleRecords, SampleSort) :
        HelperCall("sortObjectArray", <<SampleRecords, SampleSort>>, out)

(***************************************************************************)
(* Specification of one process using the module.                          *)
(***************************************************************************)
Init ==
    /\ session = SessionInit
    /\ calls = <<>>
    /\ requests = <<>>
    /\ subs = <<>>
    /\ arg = None
    /\ ret = None

Next ==
    \/ \E e \in Events : Initialize(e)
    \/ GetRelatedObjects
    \/ GetRelatedObjectsAsObservable
    \/ GetObject
    \/ GetObjectAsObservable
    \/ SaveRelatedObject
    \/ SaveRelatedObjectAsObservable
    \/ \E i \in 1..MaxCalls, r \in Replies : HttpSettle(i, r)
    \/ \E i \in 1..MaxCalls : Subscribe(i)
    \/ \E k \in 1..MaxSubs : Deliver(k)
    \/ \E x \in SampleResponses : PrepareSuccessResponse(x)
    \/ \E m \in SampleMessages : PrepareErrorResponse(m)
    \/ CompareValuesCall
    \/ GetValueFromObjectCall
    \/ SortObjectArrayCall

Spec == Init /\ [][Next]_vars

(***************************************************************************)
(* Specification of a handler that initializes and formats its response.   *)
(***************************************************************************)
NextFormat ==
    \/ \E e \in Events : Initialize(e)
    \/ \E x \in ResponseValues : PrepareSuccessResponse(x)
    \/ \E m \in ErrorMessages : PrepareErrorResponse(m)

SpecFormat == Init /\ [][NextFormat]_vars

(***************************************************************************)
(* Specification of the observable variants alone, with the scheduling     *)
(* the event loop guarantees: a settled promise's callbacks do run.        *)
(***************************************************************************)
NextObservable ==
    \/ \E e \in Events : Initialize(e)
    \/ GetRelatedObjectsAsObservable
    \/ GetObjectAsObservable
    \/ SaveRelatedObjectAsObservable
    \/ \E i \in 1..MaxCalls, r \in Replies : HttpSettle(i, r)
    \/ \E i \in 1..MaxCalls : Subscribe(i)
    \/ \E k \in 1..MaxSubs : Deliver(k)

SpecObservable ==
    /\ Init
    /\ [][NextObservable]_vars
    /\ \A k \in 1..MaxSubs : WF_vars(Deliver(k))

(***************************************************************************)
(* Specification of compareValues as a pure function.                      *)
(***************************************************************************)
CompareOperands ==
    { Str(""), Str("x"), Str("X"), Str("b"), Str("10"), Str("9"),
      Num(0), Num(1), Num(2), Null, Undefined }

CompareInputs ==
    [op : {"compareValues"}, valueA : CompareOperands, valueB : CompareOperands,
     descending : BOOLEAN, caseInsensitive : BOOLEAN]

InitCompare ==
    /\ session = SessionInit
    /\ calls = <<>>
    /\ requests = <<>>
    /\ subs = <<>>
    /\ arg \in CompareInputs
    /\ ret = None

CompareValues ==
    /\ arg.op = "compareValues"
    /\ ret = None
    /\ ret' = compareValues(arg.valueA, arg.valueB, arg.descending,
                            arg.caseInsensitive)
    /\ UNCHANGED <<session, calls, requests, subs, arg>>

SpecCompare == InitCompare /\ [][CompareValues]_vars

(***************************************************************************)
(* Specification of getValueFromObject as a pure function.                 *)
(***************************************************************************)
MaxWords == 5       \* words an attribute path is written with

PathWords == {"owner", "Key", ":", "."}

RECURSIVE PathsOfLength(_)
PathsOfLength(n) ==
    IF n = 0 THEN {""}
    ELSE { p \o w : p \in PathsOfLength(n - 1), w \in PathWords }

Paths == UNION { PathsOfLength(n) : n \in 1..MaxWords }

\* Field names: up to three of the words "owner" and "Key".
FieldNames ==
    LET W == {"owner", "Key"}
    IN  W \cup { a \o b : a \in W, b \in W }
          \cup { a \o b \o c : a \in W, b \in W, c \in W }

\* An object with a distinct value under every field name, itself an object
\* of the same shape: the value returned names the fields that were read.
PathObject ==
    Obj([k \in FieldNames |-> Obj([m \in FieldNames |-> Str(k \o "/" \o m)])])

ExampleObject ==
    Obj([ownerAccountMember |-> Obj([name |-> Str("X")]),
         a |-> Obj([b |-> Num(5)]),
         apiKeyOwner |-> Obj([name |-> Str("Y")]),
         apiOwnerKey |-> Str("k7")])

ExamplePaths ==
    { "a.b", "a.c", "accountMember:ownerAccountMemberKey",
      "accountMember:ownerAccountMemberKey.name", "account:apiKeyOwnerKey" }

\* Roots that are falsy, and objects holding a falsy value part of the way.
FalsyObjects ==
    { Undefined, Null, Str(""), Num(0), Bool(FALSE), NaN,
      Obj([a |-> Null]), Obj([a |-> Str("")]), Obj([a |-> Num(0)]),
      Obj([a |-> Bool(FALSE)]), Obj([a |-> Obj([b |-> Num(5)])]),
      Obj([a |-> Obj([b |-> Undefined])]) }

FalsyPaths == { "a", "a.b", "a.c", "a.b.c", "x:aKey.b.c" }

PathInputs ==
    [op : {"getValueFromObject"}, object : {PathObject}, attribute : Paths]
    \cup
    [op : {"getValueFromObject"}, object : {ExampleObject},
     attribute : ExamplePaths]
    \cup
    [op : {"getValueFromObject"}, object : FalsyObjects, attribute : FalsyPaths]

InitPath ==
    /\ session = SessionInit
    /\ calls = <<>>
    /\ requests = <<>>
    /\ subs = <<>>
    /\ arg \in PathInputs
    /\ ret = None

GetValueFromObject ==
    /\ arg.op = "getValueFromObject"
    /\ ret = None
    /\ ret' = getValueFromObject(arg.object, arg.attribute)
    /\ UNCHANGED <<session, calls, requests, subs, arg>>

SpecPath == InitPath /\ [][GetValueFromObject]_vars

(***************************************************************************)
(* Specification of the data-access operations called with every kind of   *)
(* argument: filter and relationship list given, empty or left out, save   *)
(* options given or not.                                                   *)
(***************************************************************************)
RelatedQueries ==
    [parentElementId : {Str("customer")}, parentKey : {Str("c1")},
     elementId : {Str("purchase")},
     filter : {Undefined, Str("a=1"), Str("")},
     fetchedRelationships : {Undefined, Relationships, Arr(<< >>)}]

SaveRequests ==
    [parentElementId : {Str("customer")}, parentKey : {Str("c1")},
     elementId : {Str("purchase")},
     objectToSave : {Obj([status |-> Str("new")])},
     opts : {Undefined, Obj([bypassValidation |-> Bool(TRUE)]),
             Obj([bypassValidation |-> Bool(FALSE)])}]

GetRelatedObjectsWithQuery ==
    \E a \in RelatedQueries : DataAccess("getRelatedObjects", FALSE, a)

SaveRelatedObjectWithOptions ==
    \E a \in SaveRequests : DataAccess("saveRelatedObject", FALSE, a)

NextRequest ==
    \/ \E e \in Events : Initialize(e)
    \/ GetRelatedObjectsWithQuery
    \/ GetObject
    \/ SaveRelatedObjectWithOptions
    \/ \E i \in 1..MaxCalls, r \in Replies : HttpSettle(i, r)

SpecRequest == Init /\ [][NextRequest]_vars

(***************************************************************************)
(* Specification of sortObjectArray as a function of its arguments.        *)
(***************************************************************************)
\* Records with numbers, tied and distinct, a missing attribute, strings in
\* mixed case, an empty string and a number where the others hold a string.
SortRecords ==
    { Obj([a |-> Num(1), b |-> Num(2), name |-> Str("Bob")]),
      Obj([a |-> Num(1), b |-> Num(1), name |-> Str("alice")]),
      Obj([a |-> Num(0), b |-> Num(1), name |-> Str("")]),
      Obj([b |-> Num(2), name |-> Num(5)]) }

SortArrays ==
    { Arr(e) : e \in UNION { [1..n -> SortRecords] : n \in 0..MaxLen } }

SortField(attributeId, descending, caseInsensitive) ==
    [attributeId |-> attributeId, descending |-> descending,
     caseInsensitive |-> caseInsensitive]

SortSpecs ==
    { << >>,
      << SortField("a", FALSE, FALSE) >>,
      << SortField("a", TRUE, FALSE) >>,
      << SortField("name", FALSE, TRUE) >>,
      << SortField("name", TRUE, TRUE) >>,
      << SortField("a", FALSE, FALSE), SortField("b", FALSE, FALSE) >> }

SortInputs == [op : {"sortObjectArray"}, array : SortArrays, sort : SortSpecs]

InitSort ==
    /\ session = SessionInit
    /\ calls = <<>>
    /\ requests = <<>>
    /\ subs = <<>>
    /\ arg \in SortInputs
    /\ ret = None

SortObjectArray ==
    /\ arg.op = "sortObjectArray"
    /\ ret = None
    /\ ret' \in sortObjectArray(arg.array, arg.sort)
    /\ UNCHANGED <<session, calls, requests, subs, arg>>

SpecSort == InitSort /\ [][SortObjectArray]_vars

(***************************************************************************)
(* Properties.                                                             *)
(***************************************************************************)
CompareInput(a, b, descending, caseInsensitive) ==
    [op |-> "compareValues", valueA |-> a, valueB |-> b,
     descending |-> descending, caseInsensitive |-> caseInsensitive]

\* C1 as stated: compareValues("", "x", false, true) returns 1 and
\* compareValues("x", "", true, true) returns 1 as well.
C1_BothReturnOne ==
    ret # None =>
        /\ (arg = CompareInput(Str(""), Str("x"), FALSE, TRUE) => ret = Num(1))
        /\ (arg = CompareInput(Str("x"), Str(""), TRUE, TRUE) => ret = Num(1))

\* C1 as amended: compareValues("", "x", d, true) returns 1 and
\* compareValues("x", "", d, true) returns -1, for d false and d true: the
\* empty value sorts after the non-empty one whichever side it is on, and
\* the descending flag does not invert that.
C1_EmptySortsLast ==
    ret # None =>
        \A d \in BOOLEAN :
            /\ (arg = CompareInput(Str(""), Str("x"), d, TRUE) => ret = Num(1))
            /\ (arg = CompareInput(Str("x"), Str(""), d, TRUE) => ret = Num(-1))

C1_Witness ==
    arg = CompareInput(Str("x"), Str(""), TRUE, TRUE) /\ ret = Num(-1)

SubscriptionsOf(i) == { k \in DOMAIN subs : subs[k].obs = i }

\* C2 as stated: an observable variant is lazy: the requests issued for it
\* are as many as its subscriptions, none before the first.
C2_RequestPerSubscription ==
    \A i \in DOMAIN calls :
        IsObservable(i) =>
            Cardinality(RequestsOf(i)) = Cardinality(SubscriptionsOf(i))

\* C2 as amended: calling an observable variant issues its HTTP request at
\* once, exactly one, and subscribing to the returned observable, any number
\* of times, issues none.
C2_RequestAtCallOnly ==
    \A i \in DOMAIN calls :
        IsObservable(i) => Cardinality(RequestsOf(i)) = 1

C2_Witness ==
    \E i \in DOMAIN calls :
        /\ IsObservable(i)
        /\ Cardinality(SubscriptionsOf(i)) = 2
        /\ Cardinality(RequestsOf(i)) = 1

RequestOf(i) == requests[CHOOSE j \in RequestsOf(i) : TRUE]

\* What subscription k has received is one value, the response body, then
\* completion; or one error, the one the HTTP call raised, and no value.
TerminalOutcome(k) ==
    LET i == subs[k].obs
        ev == subs[k].events
        reply == RequestOf(i).reply
    IN  \/ /\ reply.ok
           /\ reply # NoReply
           /\ Len(ev) = 2
           /\ ev[1] = [kind |-> "next", v |-> Get(reply.v, "data")]
           /\ ev[2].kind = "complete"
        \/ /\ ~reply.ok
           /\ reply # NoReply
           /\ ev = << [kind |-> "error", v |-> reply.v] >>

\* C3: every subscription whose HTTP call resolves or fails eventually
\* receives exactly one terminal outcome (one value then completion, or one
\* error and no value); before that it has received nothing, and nothing is
\* emitted after it.
C3_OneTerminalOutcome ==
    /\ [](\A k \in DOMAIN subs : subs[k].events = <<>> \/ TerminalOutcome(k))
    /\ [][\A k \in DOMAIN subs :
            subs[k].events # <<>> => subs'[k].events = subs[k].events]_vars
    /\ \A k \in 1..MaxSubs :
          (k \in DOMAIN subs /\ calls[subs[k].obs].state # "pending")
              ~> (k \in DOMAIN subs /\ TerminalOutcome(k))

C3_Witness ==
    \E k, m \in DOMAIN subs :
        /\ k # m
        /\ subs[k].obs = subs[m].obs
        /\ TerminalOutcome(k)
        /\ TerminalOutcome(m)
        /\ Len(subs[k].events) = 2

\* The object the claim reads the fields from: event.body when event has a
\* body field, event itself otherwise.
ClaimedSource(event) ==
    IF "body" \in DOMAIN event.f THEN event.f["body"] ELSE event

FieldOrUndefined(object, field) ==
    IF field \in DOMAIN object.f THEN object.f[field] ELSE Undefined

\* C4: initialize(event) can be called in every state with every event, and
\* after it each of the six core fields equals the same-named field of
\* event.body when event has a body field and of event otherwise, undefined
\* when absent, and the envelope flag is set when a body field is present.
C4_InitializePopulates ==
    /\ [](\A e \in Events : ENABLED Initialize(e))
    /\ [][\A e \in Events :
            Initialize(e) =>
                /\ \A field \in CoreFields :
                      session'[field] = FieldOrUndefined(ClaimedSource(e), field)
                /\ ("body" \in DOMAIN e.f => session'.useBody = Bool(TRUE))]_vars

C4_Witness ==
    /\ session.useBody = Bool(TRUE)
    /\ session.sandboxKey = Str("s2")
    /\ session.authToken = Undefined
    /\ session.params = Undefined

\* C5: a step that is not a call of initialize (a data-access operation or
\* its observable variant, the settling of its HTTP call, a subscription, a
\* delivery, a formatter, a helper) leaves every session field as it was.
C5_OnlyInitializeWrites ==
    [][(\E e \in Events : Initialize(e)) \/ session' = session]_vars

C5_Witness ==
    /\ session.authToken = Str("t1")
    /\ session.params = Obj(NoFields)
    /\ \E i \in DOMAIN calls :
          /\ calls[i].op = "getRelatedObjects"
          /\ calls[i].state = "rejected"
          /\ RequestOf(i).req.params # Undefined

\* C6: every data-access call has issued exactly one HTTP request; while the
\* request is unanswered the call is pending; once answered with a response
\* the call is resolved with that response's body, and once failed the call
\* is rejected with the very error the HTTP call raised.
C6_OneRequestUnchangedOutcome ==
    \A i \in DOMAIN calls :
        IsDataCall(calls[i]) =>
            /\ Cardinality(RequestsOf(i)) = 1
            /\ LET reply == RequestOf(i).reply
               IN  /\ (reply = NoReply <=> calls[i].state = "pending")
                   /\ (reply # NoReply /\ reply.ok =>
                          /\ calls[i].state = "resolved"
                          /\ calls[i].result = FieldOrUndefined(reply.v, "data"))
                   /\ (reply # NoReply /\ ~reply.ok =>
                          /\ calls[i].state = "rejected"
                          /\ calls[i].result = reply.v)

C6_Witness ==
    \E i \in DOMAIN calls :
        /\ calls[i].op = "saveRelatedObject"
        /\ ~calls[i].observable
        /\ calls[i].state = "rejected"
        /\ Cardinality(RequestsOf(i)) = 1
        /\ Len(requests) = 1

IsFormatterCall(i, op) == calls[i].op = op

Envelope(statusCode, body) == Obj([statusCode |-> Num(statusCode), body |-> body])

\* C7: prepareSuccessResponse(x) returns x itself when the envelope flag is
\* unset and { statusCode: 200, body: JSON.stringify(x) } when it is set.
C7_SuccessResponseShape ==
    \A i \in DOMAIN calls :
        IsFormatterCall(i, "prepareSuccessResponse") =>
            IF calls[i].useBody = Bool(TRUE)
            THEN calls[i].result = Envelope(200, JSONStringify(calls[i].in))
            ELSE calls[i].result = calls[i].in

C7_Witness ==
    \E i \in DOMAIN calls :
        /\ IsFormatterCall(i, "prepareSuccessResponse")
        /\ calls[i].useBody = Bool(TRUE)
        /\ Get(calls[i].result, "statusCode") = Num(200)
        /\ Get(calls[i].result, "body").t = "string"

\* C8 as stated: with the envelope flag set, the body prepareSuccessResponse(x)
\* returns, parsed as JSON, deep-equals x, for every response value x.
C8_BodyParsesBack ==
    \A i \in DOMAIN calls :
        (IsFormatterCall(i, "prepareSuccessResponse") /\ Truthy(calls[i].useBody))
            => JSONParse(Get(calls[i].result, "body")) = calls[i].in

\* Values JSON text represents: null, booleans, numbers, strings, and arrays
\* and objects of such values; not undefined, not NaN.
RECURSIVE JSONRepresentable(_)
JSONRepresentable(v) ==
    CASE v.t \in {"null", "boolean", "number", "string"} -> TRUE
      [] v.t = "array" -> \A k \in DOMAIN v.e : JSONRepresentable(v.e[k])
      [] v.t = "object" -> \A k \in DOMAIN v.f : JSONRepresentable(v.f[k])
      [] OTHER -> FALSE

\* C8 as amended: with the envelope flag set, the body prepareSuccessResponse(x)
\* returns, parsed as JSON, deep-equals x for every response value x made of
\* null, booleans, finite numbers, strings, and arrays and plain objects of
\* such values (an undefined or NaN anywhere in x does not come back).
C8_RepresentableBodyParsesBack ==
    \A i \in DOMAIN calls :
        (/\ IsFormatterCall(i, "prepareSuccessResponse")
         /\ Truthy(calls[i].useBody)
         /\ JSONRepresentable(calls[i].in))
            => JSONParse(Get(calls[i].result, "body")) = calls[i].in

C8_Witness ==
    \E i \in DOMAIN calls :
        /\ IsFormatterCall(i, "prepareSuccessResponse")
        /\ Truthy(calls[i].useBody)
        /\ Get(Get(calls[i].in, "calculatedValue"), "tags") = Arr(<<Null, Bool(TRUE)>>)
        /\ JSONParse(Get(calls[i].result, "body")) = calls[i].in

\* C9: prepareErrorResponse(message) returns, with the envelope flag set,
\* { statusCode: 400, body } where body is the JSON text of
\* { errorMessage: message }, and with the flag unset
\* { responseType: "error", errorMessage: message }; it never throws.
C9_ErrorResponseShape ==
    \A i \in DOMAIN calls :
        IsFormatterCall(i, "prepareErrorResponse") =>
            IF calls[i].useBody = Bool(TRUE)
            THEN /\ DOMAIN calls[i].result.f = {"statusCode", "body"}
                 /\ Get(calls[i].result, "statusCode") = Num(400)
                 /\ JSONParse(Get(calls[i].result, "body"))
                        = Obj([errorMessage |-> calls[i].in])
            ELSE calls[i].result
                    = Obj([responseType |-> Str("error"),
                           errorMessage |-> calls[i].in])

C9_Witness ==
    \E i \in DOMAIN calls :
        /\ IsFormatterCall(i, "prepareErrorResponse")
        /\ calls[i].useBody = Bool(TRUE)
        /\ calls[i].in = Str("Failed to \"save\"")
        /\ Get(calls[i].result, "statusCode") = Num(400)

\* The field the claim has a path component read: the second colon-separated
\* part without its trailing "Key", or the component itself without a colon.
ClaimedComponentField(component) ==
    LET compSplit == Split(component, ":")
    IN  IF Len(compSplit) > 1
        THEN SubSeq(compSplit[2], 1, Len(compSplit[2]) - 3)
        ELSE component

RECURSIVE ClaimedWalk(_, _, _)
ClaimedWalk(value, components, i) ==
    IF i > Len(components) THEN value
    ELSE IF Truthy(value)
         THEN ClaimedWalk(GetProperty(value, ClaimedComponentField(components[i])),
                          components, i + 1)
         ELSE ClaimedWalk(value, components, i + 1)

KeyFieldsEndInKey(attribute) ==
    LET components == Split(attribute, ".")
    IN  \A k \in DOMAIN components :
            Len(Split(components[k], ":")) > 1
                => HasSuffix(Split(components[k], ":")[2], "Key")

\* C10: for every path whose colon-qualified components have a key field
\* ending in "Key", getValueFromObject descends, at a colon-qualified
\* component, into the field named by the key field without its trailing
\* "Key", and at any other component into the field the component names.
C10_ColonStripsTrailingKey ==
    (ret # None /\ arg.op = "getValueFromObject" /\ KeyFieldsEndInKey(arg.attribute))
        => ret = ClaimedWalk(arg.object, Split(arg.attribute, "."), 1)

\* The value reached after the first n components of the path, each read
\* from the value before it.
RECURSIVE ValueAfter(_, _, _)
ValueAfter(object, components, n) ==
    IF n = 0 THEN object
    ELSE GetProperty(ValueAfter(object, components, n - 1),
                     ComponentField(components[n]))

\* The value after n components is falsy and no value before it is.
FirstFalsyAt(object, components, n) ==
    /\ ~Truthy(ValueAfter(object, components, n))
    /\ \A m \in 0..(n - 1) : Truthy(ValueAfter(object, components, m))

\* C11: getValueFromObject does not raise, and when the value reached after
\* some prefix of the path (the root object included) is falsy, it returns
\* that falsy value, whatever segments remain.
C11_FalsyShortCircuits ==
    (ret # None /\ arg.op = "getValueFromObject") =>
        LET components == Split(arg.attribute, ".")
        IN  /\ ret # Thrown
            /\ \A n \in 0..Len(components) :
                  FirstFalsyAt(arg.object, components, n)
                      => ret = ValueAfter(arg.object, components, n)

C11_Witness ==
    /\ arg.op = "getValueFromObject"
    /\ arg.object = Obj([a |-> Null])
    /\ arg.attribute = "a.b.c"
    /\ ret = Null

\* C12: after sortObjectArray(array, sortFields) has returned, no element
\* of the array compares after a later element: for all positions i < j,
\* comparing the two field by field in sortFields order, up to the first
\* non-zero result, does not give a positive result.
C12_LexicographicOrder ==
    (ret # None /\ arg.op = "sortObjectArray" /\ ret.returned # Thrown) =>
        \A i, j \in 1..Len(ret.array.e) :
            i < j =>
                LET c == SortComparator(ret.array.e[i], ret.array.e[j], arg.sort, 1)
                IN  c = Thrown \/ c.n <= 0

\* The elements of e and of f are the same, each as many times.
IsPermutation(e, f) ==
    /\ Len(e) = Len(f)
    /\ \A x \in { e[i] : i \in 1..Len(e) } \cup { f[i] : i \in 1..Len(f) } :
          Cardinality({ i \in 1..Len(e) : e[i] = x })
              = Cardinality({ i \in 1..Len(f) : f[i] = x })

\* C13: sortObjectArray leaves in the array it was given a rearrangement of
\* the elements it held (the same elements, each as many times, unmodified),
\* and what it returns is that same array.
C13_InPlacePermutation ==
    (ret # None /\ arg.op = "sortObjectArray") =>
        /\ IsPermutation(ret.array.e, arg.array.e)
        /\ (ret.returned # Thrown => ret.returned = SameArray)

C13_Witness ==
    /\ arg.op = "sortObjectArray"
    /\ arg.sort = << SortField("name", FALSE, TRUE) >>
    /\ Len(arg.array.e) = 2
    /\ Get(arg.array.e[1], "name") = Str("Bob")
    /\ Get(arg.array.e[2], "name") = Str("alice")
    /\ ret # None
    /\ ret.returned = SameArray
    /\ ret.array.e = << arg.array.e[2], arg.array.e[1] >>

\* C14: compareValues with caseInsensitive set and a string a: when exactly
\* one of a, b is falsy the result is positive if a is the falsy one and
\* negative if b is, for both values of descending; when both are falsy it is
\* 0; when both are truthy strings it is the locale comparison of the
\* lower-cased strings, negated when descending.
C14_CaseInsensitivePresence ==
    (/\ ret # None
     /\ arg.op = "compareValues"
     /\ arg.caseInsensitive
     /\ arg.valueA.t = "string") =>
        LET a == arg.valueA
            b == arg.valueB
        IN  /\ (~Truthy(a) /\ Truthy(b) => ret # Thrown /\ ret.n > 0)
            /\ (Truthy(a) /\ ~Truthy(b) => ret # Thrown /\ ret.n < 0)
            /\ (~Truthy(a) /\ ~Truthy(b) => ret = Num(0))
            /\ (Truthy(a) /\ Truthy(b) /\ b.t = "string" =>
                  LET comp == localeCompare(toLowerCase(a.s), toLowerCase(b.s))
                  IN  ret = Num(IF arg.descending THEN 0 - comp ELSE comp))

C14_Witness ==
    /\ arg = CompareInput(Str("X"), Null, TRUE, TRUE)
    /\ ret = Num(-1)

\* The step is a call of the data-access operation op.
CallOf(op) ==
    /\ Len(calls') = Len(calls) + 1
    /\ calls'[Len(calls')].op = op

\* A filter is supplied when one is passed and is not the empty string; a
\* relationship list is supplied when one is passed.
FilterSupplied(filter) == filter \notin {Undefined, Null, Str("")}
ListSupplied(list) == list \notin {Undefined, Null}

QueryParameters(req) == IF req.params = Undefined THEN {} ELSE DOMAIN req.params.f

\* C15: a call of getRelatedObjects issues one request, a GET to
\* {serviceAddress}/schema/sandboxes/{sandboxKey}/{parentElementId}/{parentKey}/{elementId}
\* with Authorization: Bearer {authToken}; its query parameters are filter,
\* exactly when a filter is supplied, and fetchedRelationships, the names
\* joined by commas, exactly when a relationship list is supplied.
C15_GetRelatedObjectsRequest ==
    [][CallOf("getRelatedObjects") =>
          LET a == calls'[Len(calls')].in
              r == requests'[Len(requests')].req
          IN  /\ Len(requests') = Len(requests) + 1
              /\ r.method = "GET"
              /\ r.url = ToStr(session.serviceAddress) \o "/schema/sandboxes/"
                            \o ToStr(session.sandboxKey) \o "/" \o a.parentElementId.s
                            \o "/" \o a.parentKey.s \o "/" \o a.elementId.s
              /\ r.authorization = "Bearer " \o ToStr(session.authToken)
              /\ QueryParameters(r)
                    = (IF FilterSupplied(a.filter) THEN {"filter"} ELSE {})
                      \cup (IF ListSupplied(a.fetchedRelationships)
                            THEN {"fetchedRelationships"} ELSE {})
              /\ (FilterSupplied(a.filter) => r.params.f["filter"] = a.filter)
              /\ (ListSupplied(a.fetchedRelationships) =>
                    r.params.f["fetchedRelationships"]
                        = Str(Join(a.fetchedRelationships, ",")))]_vars

C15_Witness ==
    \E i \in DOMAIN calls :
        /\ calls[i].op = "getRelatedObjects"
        /\ calls[i].in.filter = Undefined
        /\ calls[i].in.fetchedRelationships = Relationships
        /\ RequestOf(i).req.url = "http://h1/schema/sandboxes/s1/customer/c1/purchase"
        /\ RequestOf(i).req.authorization = "Bearer t1"
        /\ RequestOf(i).req.params = Obj([fetchedRelationships |-> Str("owner,items")])

BypassRequested(opts) ==
    opts # Undefined /\ Get(opts, "bypassValidation") = Bool(TRUE)

\* C16: a call of saveRelatedObject issues one request, a POST with the
\* payload as body and Authorization: Bearer {authToken}, to the url
\* getRelatedObjects builds for the same parent element, parent key, element
\* and session, followed by ?bypassValidation=true exactly when the options
\* ask to bypass validation; a resolved call holds the response body.
C16_SaveRelatedObjectRequest ==
    /\ [][CallOf("saveRelatedObject") =>
             LET a == calls'[Len(calls')].in
                 r == requests'[Len(requests')].req
                 fetch == getRelatedObjectsRequest(
                              session,
                              [parentElementId |-> a.parentElementId,
                               parentKey |-> a.parentKey,
                               elementId |-> a.elementId,
                               filter |-> Undefined,
                               fetchedRelationships |-> Undefined])
             IN  /\ Len(requests') = Len(requests) + 1
                 /\ r.method = "POST"
                 /\ r.data = a.objectToSave
                 /\ r.authorization = "Bearer " \o ToStr(session.authToken)
                 /\ r.url = fetch.url \o (IF BypassRequested(a.opts)
                                          THEN "?bypassValidation=true" ELSE "")]_vars
    /\ [](\A i \in DOMAIN calls :
            (calls[i].op = "saveRelatedObject" /\ calls[i].state = "resolved") =>
                /\ calls[i].result = Get(RequestOf(i).reply.v, "data")
                /\ calls[i].result # calls[i].in.objectToSave)

C16_Witness ==
    \E i \in DOMAIN calls :
        /\ calls[i].op = "saveRelatedObject"
        /\ calls[i].in.opts = Obj([bypassValidation |-> Bool(FALSE)])
        /\ calls[i].state = "resolved"
        /\ RequestOf(i).req.url = "http://h2/schema/sandboxes/s2/customer/c1/purchase"
        /\ RequestOf(i).req.authorization = "Bearer undefined"
        /\ calls[i].result = Arr(<<Obj([objKey |-> Str("p1")])>>)

HasBody(event) == Truthy(Get(event, "body"))

\* C17: the envelope flag starts unset, is set by an initialize whose event
\* has a body, is set by nothing else and is never cleared; an initialize
\* with a body-less event gives the six core fields that event's values and
\* leaves the flag as it was, and with the flag set prepareSuccessResponse
\* wraps its response.
C17_EnvelopeFlagNeverCleared ==
    /\ ~Truthy(session.useBody)
    /\ [][Truthy(session.useBody) => Truthy(session'.useBody)]_vars
    /\ [][\A e \in Events :
            (Initialize(e) /\ HasBody(e)) => Truthy(session'.useBody)]_vars
    /\ [][(~Truthy(session.useBody) /\ Truthy(session'.useBody))
            => \E e \in Events : HasBody(e) /\ Initialize(e)]_vars
    /\ [][\A e \in Events :
            (Initialize(e) /\ ~HasBody(e)) =>
                /\ \A field \in CoreFields :
                      session'[field] = FieldOrUndefined(e, field)
                /\ session'.useBody = session.useBody]_vars
    /\ [][(CallOf("prepareSuccessResponse") /\ Truthy(session.useBody))
            => Get(calls'[Len(calls')].result, "statusCode") = Num(200)]_vars

C17_Witness ==
    /\ session.useBody = Bool(TRUE)
    /\ session.authToken = Str("t1")
    /\ session.sandboxKey = Str("s1")
    /\ \E i \in DOMAIN calls :
          /\ calls[i].op = "prepareSuccessResponse"
          /\ Get(calls[i].result, "statusCode") = Num(200)

Sign(n) == IF n < 0 THEN -1 ELSE IF n > 0 THEN 1 ELSE 0

\* C19: for a and b among strings (the empty one included), numbers, null
\* and undefined, and any flags, compareValues(a, b, ...) does not raise and
\* its sign is the opposite of the sign of compareValues(b, a, ...).
C19_ConsistentComparator ==
    (ret # None /\ arg.op = "compareValues") =>
        LET back == compareValues(arg.valueB, arg.valueA, arg.descending,
                                  arg.caseInsensitive)
        IN  /\ ret # Thrown
            /\ back # Thrown
            /\ Sign(ret.n) = 0 - Sign(back.n)

====
